---- MODULE Spec2Model ----
(***************************************************************************)
(* State-machine model of bevy_spine's plugin (src/src/lib.rs): the six    *)
(* systems registered by SpinePlugin::build, the deferred command queue    *)
(* they write to, the ready-notification delay of spine_load, the event    *)
(* bridge of spine_update and the mesh and material pipeline of            *)
(* spine_render.                                                           *)
(***************************************************************************)
EXTENDS Naturals, Integers, Sequences, FiniteSets, TLC

(***************************************************************************)
(* Bounds and input catalogue                                              *)
(***************************************************************************)
\* Number of slots of the larger skeleton of the catalogue.
NumSlots == 2
\* Largest number of runtime callbacks the controllers raise in one tick.
MaxCallbacks == 2
\* Ticks since the Loading -> Ready transition are counted up to this cap.
AgeCap == 2

Entities == {"e1", "e2"}
Assets == {"a1", "a2"}

None == "None"

\* Option<T>: Nothing is Rust's None, Some(x) holds x.
Nothing == <<>>
Some(x) == <<x>>
IsSome(o) == o # <<>>
Unwrap(o) == o[1]

\* enum SpineLoader
LoaderStates == {"Loading", "Ready", "Failed"}

\* enum SpineSystem
Systems ==
    {"Load", "Update", "SyncEntities", "SyncBones", "SyncEntitiesApplied", "Render"}

\* The source variant of each skeleton-data asset (enum SkeletonData).
Kind(a) == IF a = "a1" THEN "JsonFile" ELSE "BinaryFile"

\* Pages of each asset's atlas, each page reporting pma(); a2's atlas has no page.
AtlasPages(a) == IF a = "a1" THEN <<TRUE, FALSE>> ELSE <<>>

\* controller.skeleton.slots(): the slots of the skeleton parsed from asset a.
Slots(a) == IF a = "a1" THEN 1..NumSlots ELSE 1..1

\* The bone tree of the skeleton parsed from asset a: BoneParent[b] is the
\* parent of bone b, None for the root.
BoneParent(a) ==
    IF a = "a1"
    THEN [b \in {"root", "hip", "head"} |->
            IF b = "root" THEN None ELSE IF b = "hip" THEN "root" ELSE "hip"]
    ELSE [b \in {"root"} |-> None]

\* controller.skeleton.bone_root()
bone_root(a) == CHOOSE b \in DOMAIN BoneParent(a) : BoneParent(a)[b] = None

\* bone.children()
bone_children(a, b) == {c \in DOMAIN BoneParent(a) : BoneParent(a)[c] = b}

(***************************************************************************)
(* State                                                                   *)
(***************************************************************************)
VARIABLES
    handle_of,     \* Handle<SkeletonData> component of each entity
    parses,        \* whether read_skeleton_data succeeds on the asset's bytes
    assets,        \* Assets<SkeletonData>, Assets<Atlas>, Assets<SkeletonJson/Binary>
    loader,        \* SpineLoader component of each entity
    spine,         \* Spine(controller) component of each entity, if attached
    children,      \* Children component of each entity: kinds of its child entities
    bones,         \* SpineBone proxies of each entity
    handles,       \* material-variant handle components of each mesh-slot child
    meshes,        \* Assets<Mesh>: the mesh of each mesh-slot child
    materials,     \* the eight Assets<Spine*Material> stores
    commands,      \* deferred Commands, applied at the end of the stage
    local_ready,   \* SpineLoadLocal.ready
    ready_events,  \* SpineReadyEvent sent in the current tick
    events,        \* SpineUpdateLocal.events, the shared queue
    lock,          \* holder of the queue's Mutex
    spine_events,  \* SpineEvent sent in the current tick
    started,       \* systems started in the current tick, in start order
    done,          \* systems finished in the current tick
    advanced,      \* controllers spine_update has advanced in the current tick
    frame,         \* renderables() of each controller in the current tick's render
    last_frame,    \* renderables() of each controller in its render of an earlier tick
    parsed,        \* number of successful read_skeleton_data calls per asset
    tried,         \* entities spine_load called read_skeleton_data for in the current tick
    failures,      \* number of failed read_skeleton_data calls per entity, up to AgeCap
    transitions,   \* number of Loading -> Ready transitions of each entity
    sent,          \* number of SpineReadyEvent sent for each entity
    age,           \* ticks since the entity's transition, Nothing before it
    enqueued,      \* events the listeners pushed in the current tick, in push order
    raised,        \* number of callbacks raised in the current tick
    delta,         \* time.delta_seconds() of the current tick
    steps,         \* the deltas each controller's update() got in the current tick
    dispose_calls, \* entities whose listener got a Dispose callback in the current tick
    bone_local,    \* local transform of each skeleton's root bone in the runtime
    proxy_local,   \* local Transform of the root bone's proxy entity
    driven,        \* whether external code has marked the root bone externally driven
    given,         \* the transform external code last gave the marked proxy
    installs,      \* number of set_listener calls made on each entity's controller
    raisers        \* for each event of enqueued, the entity whose controller raised it

vars ==
    <<handle_of, parses, assets, loader, spine, children, bones, handles, meshes,
      materials, commands, local_ready, ready_events, events, lock, spine_events,
      started, done, advanced, frame, last_frame, parsed, tried, failures, transitions, sent, age, enqueued, raised, delta, steps,
      dispose_calls, bone_local, proxy_local, driven, given, installs,
      raisers>>

Range(s) == {s[i] : i \in DOMAIN s}

(***************************************************************************)
(* Meshes                                                                  *)
(***************************************************************************)
\* Mesh::new(PrimitiveTopology::TriangleList)
NewMesh == [indices |-> Nothing, attributes |-> <<>>]

\* Mesh::set_indices
set_indices(mesh, format, data) ==
    [mesh EXCEPT !.indices = Some([format |-> format, data |-> data])]

\* Mesh::insert_attribute: the attribute replaces the one stored under its id.
\* "Vertex_Position" is id 0, the id of Mesh::ATTRIBUTE_POSITION.
insert_attribute(mesh, attribute, format, values) ==
    [mesh EXCEPT !.attributes =
        (attribute :> [format |-> format, values |-> values]) @@ @]

\* Fault variant of empty_mesh: the empty positions go under an attribute id of
\* their own instead of id 0, so the positions of the last renderable stay.
empty_mesh_other_id(mesh) ==
    LET m1 == set_indices(mesh, "U32", <<>>)
        m2 == insert_attribute(m1, "Vertex_Position3", "Float32x3", <<>>)
        m3 == insert_attribute(m2, "Vertex_Normal", "Float32x3", <<>>)
    IN  insert_attribute(m3, "Vertex_Uv", "Float32x2", <<>>)

\* fn empty_mesh
empty_mesh(mesh) ==
    LET m1 == set_indices(mesh, "U32", <<>>)
        m2 == insert_attribute(m1, "Vertex_Position", "Float32x3", <<>>)
        m3 == insert_attribute(m2, "Vertex_Normal", "Float32x3", <<>>)
    IN  insert_attribute(m3, "Vertex_Uv", "Float32x2", <<>>)

(***************************************************************************)
(* spine_load                                                              *)
(***************************************************************************)
\* fn spawn_bones: the proxies spawned for the subtree of `bone`, each with its
\* SpineBone component and the parent it is spawned under.
RECURSIVE spawn_bones(_, _, _, _)
spawn_bones(spine_entity, parent, a, bone) ==
    IF bone \notin DOMAIN BoneParent(a)
    THEN {}
    ELSE {[spine_entity |-> spine_entity, handle |-> bone, parent |-> parent]}
         \cup UNION {spawn_bones(spine_entity, bone, a, c) : c \in bone_children(a, bone)}

\* premultipled_alpha of spine_load: pma() of the atlas's first page, if any.
premultipled_alpha(a) ==
    IF Len(AtlasPages(a)) > 0 THEN AtlasPages(a)[1] ELSE FALSE

\* Fault variant of ChildKinds: one mesh child per bone instead of per slot.
ChildKindsPerBone(a) ==
    [i \in 1..(Cardinality(DOMAIN BoneParent(a)) + 1) |->
        IF i <= Cardinality(DOMAIN BoneParent(a)) THEN "mesh" ELSE "bone"]

\* The children the with_children closure of spine_load spawns under the entity,
\* in spawn order: one mesh child per skeleton slot, then the root bone proxy.
ChildKinds(a) ==
    [i \in 1..(Cardinality(Slots(a)) + 1) |->
        IF i \in Slots(a) THEN "mesh" ELSE "bone"]

\* Fault variant of IsLoading: the loop body also runs for a Ready loader.
IsNotFailed(l) == l # "Failed"

\* The guard of the loop body of spine_load.
IsLoading(l) == l = "Loading"

\* Fault variant of Missing: the json or binary source is not looked up.
MissingSourceIgnored(asset) ==
    IF ~asset.present THEN TRUE
    ELSE IF ~asset.atlas THEN TRUE
    ELSE FALSE

\* The three lookups of spine_load that `continue` on None, in order:
\* skeleton_data_assets.get_mut, atlases.get, jsons.get or binaries.get.
Missing(asset) ==
    IF ~asset.present THEN TRUE
    ELSE IF ~asset.atlas THEN TRUE
    ELSE IF ~asset.source THEN TRUE
    ELSE FALSE

\* Fault variant of OnParseError: the loader becomes Failed.
OnParseErrorFailed(st, entity) ==
    [st EXCEPT !.loader[entity] = "Failed",
               !.failures[entity] = IF @ < AgeCap THEN @ + 1 ELSE @]

\* The Err arm of read_skeleton_data: the loader is set to Loading and the
\* loop goes on with the next entity.
OnParseError(st, entity) ==
    [st EXCEPT !.loader[entity] = "Loading",
               !.failures[entity] = IF @ < AgeCap THEN @ + 1 ELSE @]

\* Fault variant of Cached: the cache slot is never used.
NeverCached(data) == FALSE

\* `if let Some(skeleton_data) = &data`: the asset's slot holds parsed data.
Cached(data) == IsSome(data)

\* The body of spine_load's loop for one entity; st holds what the loop writes.
LoadEntity(st, entity) ==
    LET a == handle_of[entity]
        asset == st.assets[a]
    IN
    IF ~IsLoading(st.loader[entity]) THEN st
    ELSE IF Missing(asset) THEN st
    ELSE
      LET withLoader == [st EXCEPT !.assets[a].loader = TRUE]
          called == [withLoader EXCEPT !.tried = @ \cup {entity}]
      IN
      IF ~Cached(asset.data) /\ ~parses[a]
      THEN OnParseError(called, entity)
      ELSE
        LET afterParse == IF ~Cached(asset.data)
                      THEN [called EXCEPT !.assets[a].data = Some(st.parsed[a] + 1),
                                          !.parsed[a] = @ + 1]
                      ELSE withLoader
            skeleton_data == afterParse.assets[a].data
            controller == [asset |-> a,
                           skeleton_data |-> skeleton_data,
                           premultiplied_alpha |-> premultipled_alpha(a),
                           listener |-> FALSE,
                           captured |-> None]
            slot_meshes == [i \in Slots(a) |-> empty_mesh(NewMesh)]
            kinds == ChildKinds(a)
        IN  [afterParse EXCEPT
                !.meshes[entity] = slot_meshes,
                !.commands = @ \o
                    << [op |-> "with_children", entity |-> entity, kinds |-> kinds,
                        proxies |-> spawn_bones(entity, entity, a, bone_root(a))],
                       [op |-> "insert_spine", entity |-> entity,
                        controller |-> controller] >>,
                !.loader[entity] = "Ready",
                !.local_ready = Append(@, entity),
                !.transitions[entity] = @ + 1]

RECURSIVE LoadAll(_, _)
LoadAll(st, order) ==
    IF order = <<>> THEN st
    ELSE LoadAll(LoadEntity(st, Head(order)), Tail(order))

\* The orders in which a query may visit the entities.
QueryOrders(S) ==
    {o \in [1..Cardinality(S) -> S] : \A i, j \in DOMAIN o : i # j => o[i] # o[j]}

(***************************************************************************)
(* spine_update                                                            *)
(***************************************************************************)
\* rusty::EventType; "Unknown" stands for the types the listener's `_` arm takes.
EventTypes == {"Start", "Interrupt", "End", "Complete", "Dispose", "Event", "Unknown"}

\* What the animation state hands to the listener in one callback.
Callbacks ==
    {cb \in [event_type : EventTypes, animation : {"walk"},
             spine_event : {None, "footstep"}] :
        cb.spine_event # None => cb.event_type = "Event"}

\* The callback sequences of at most n callbacks one spine.update() may raise.
CallbackSeqs(n) ==
    UNION {[1..k -> Callbacks] : k \in 0..n}

\* No callback: the animation states stay silent.
Silent(n) == {<<>>}

\* Fault variant of listener: Dispose has no arm and falls to `_`.
listener_without_dispose(entity, cb) ==
    CASE cb.event_type = "Start" ->
            <<[type |-> "Start", entity |-> entity, animation |-> cb.animation]>>
      [] cb.event_type = "Interrupt" ->
            <<[type |-> "Interrupt", entity |-> entity, animation |-> cb.animation]>>
      [] cb.event_type = "End" ->
            <<[type |-> "End", entity |-> entity, animation |-> cb.animation]>>
      [] cb.event_type = "Complete" ->
            <<[type |-> "Complete", entity |-> entity, animation |-> cb.animation]>>
      [] cb.event_type = "Event" ->
            IF cb.spine_event # None
            THEN <<[type |-> "Event", entity |-> entity, name |-> cb.spine_event]>>
            ELSE <<>>
      [] OTHER -> <<>>

\* The closure given to set_listener for `entity`: the events it pushes.
listener(entity, cb) ==
    CASE cb.event_type = "Start" ->
            <<[type |-> "Start", entity |-> entity, animation |-> cb.animation]>>
      [] cb.event_type = "Interrupt" ->
            <<[type |-> "Interrupt", entity |-> entity, animation |-> cb.animation]>>
      [] cb.event_type = "End" ->
            <<[type |-> "End", entity |-> entity, animation |-> cb.animation]>>
      [] cb.event_type = "Complete" ->
            <<[type |-> "Complete", entity |-> entity, animation |-> cb.animation]>>
      [] cb.event_type = "Dispose" ->
            <<[type |-> "Dispose", entity |-> entity]>>
      [] cb.event_type = "Event" ->
            IF cb.spine_event # None
            THEN <<[type |-> "Event", entity |-> entity, name |-> cb.spine_event]>>
            ELSE <<>>
      [] OTHER -> <<>>

\* events.push_back for every callback of one advance, in callback order.
RECURSIVE PushAll(_, _, _)
PushAll(queue, entity, cbs) ==
    IF cbs = <<>> THEN queue
    ELSE PushAll(queue \o listener(entity, Head(cbs)), entity, Tail(cbs))

\* Fault variant of LoopContinues: the drain stops one event short.
LoopStopsEarly(queue) == Len(queue) > 1

\* while let Some(event) = events.pop_front(): the loop goes on while the
\* queue holds an event.
LoopContinues(queue) == queue # <<>>

\* Fault variant of pop_front: the drain takes the newest event first.
pop_back(queue) ==
    [event |-> queue[Len(queue)], rest |-> SubSeq(queue, 1, Len(queue) - 1)]

\* events.pop_front(): the event taken and the queue left.
pop_front(queue) == [event |-> Head(queue), rest |-> Tail(queue)]

\* The controllers spine_query of spine_update matches.
Controllers == {e \in Entities : IsSome(spine[e])}

(***************************************************************************)
(* spine_render                                                            *)
(***************************************************************************)
\* rusty_spine::BlendMode
BlendModes == {"Normal", "Additive", "Multiply", "Screen"}

\* The eight apply_material! invocations, in source order.
MaterialVariants ==
    << [material |-> "SpineNormalMaterial", blend_mode |-> "Normal",
        premultiplied_alpha |-> FALSE],
       [material |-> "SpineAdditiveMaterial", blend_mode |-> "Additive",
        premultiplied_alpha |-> FALSE],
       [material |-> "SpineMultiplyMaterial", blend_mode |-> "Multiply",
        premultiplied_alpha |-> FALSE],
       [material |-> "SpineScreenMaterial", blend_mode |-> "Screen",
        premultiplied_alpha |-> FALSE],
       [material |-> "SpineNormalPmaMaterial", blend_mode |-> "Normal",
        premultiplied_alpha |-> TRUE],
       [material |-> "SpineAdditivePmaMaterial", blend_mode |-> "Additive",
        premultiplied_alpha |-> TRUE],
       [material |-> "SpineMultiplyPmaMaterial", blend_mode |-> "Multiply",
        premultiplied_alpha |-> TRUE],
       [material |-> "SpineScreenPmaMaterial", blend_mode |-> "Screen",
        premultiplied_alpha |-> TRUE] >>

Materials == {MaterialVariants[i].material : i \in DOMAIN MaterialVariants}

\* Fault variant of Condition: the premultiplied-alpha test is left out.
ConditionBlendOnly(variant, renderable) ==
    renderable.blend_mode = variant.blend_mode

\* The $condition argument of an apply_material! invocation.
Condition(variant, renderable) ==
    /\ renderable.blend_mode = variant.blend_mode
    /\ renderable.premultiplied_alpha = variant.premultiplied_alpha

\* Triangulations the runtime may hand out: vertices, indices and uvs.
Shape(name) ==
    IF name = "tri"
    THEN [vertices |-> << <<0, 0>>, <<1, 0>>, <<0, 1>> >>,
          indices |-> <<0, 1, 2>>,
          uvs |-> << <<0, 0>>, <<1, 0>>, <<0, 1>> >>]
    ELSE [vertices |-> << <<0, 0>>, <<2, 0>>, <<2, 2>>, <<0, 2>> >>,
          indices |-> <<0, 1, 2, 2, 3, 0>>,
          uvs |-> << <<0, 1>>, <<1, 1>>, <<1, 0>>, <<0, 0>> >>]

\* One renderable of SkeletonController::renderables(); premultiplied_alpha is
\* the controller's setting.
Renderable(shape, blend_mode, object, color, dark_color, pma) ==
    [vertices |-> Shape(shape).vertices,
     indices |-> Shape(shape).indices,
     uvs |-> Shape(shape).uvs,
     color |-> color,
     dark_color |-> dark_color,
     blend_mode |-> blend_mode,
     premultiplied_alpha |-> pma,
     attachment_renderer_object |-> object]

\* The renderables the attachments of asset a's skeleton may yield, for a
\* controller whose setting is pma.  a1's skeleton switches blend mode on one
\* texture, changes texture and tint under one blend mode, and has an attachment
\* without render object; a2's skeleton also uses Multiply and Screen.
Renderables(a, pma) ==
    { Renderable("tri", "Normal", "tex1", "white", "black", pma),
      Renderable("tri", "Additive", "tex1", "white", "black", pma),
      Renderable("quad", "Normal", "tex2", "red", "grey", pma),
      Renderable("quad", "Multiply", None, "white", "black", pma) }
    \cup IF a = "a1" THEN {}
         ELSE { Renderable("quad", "Multiply", "tex2", "red", "grey", pma),
                Renderable("tri", "Screen", "tex1", "white", "grey", pma) }

\* No renderable: every frame of the controller is empty.
NoRenderables(a, pma) == {}

\* The renderable lists of length 0..n over the set R.
Lists(R, n) == UNION {[1..k -> R] : k \in 0..n}

\* Fault variant of Written: the texture is set, the tints keep the defaults
\* of a new material.
WrittenDefaultTint(renderable) ==
    [image |-> renderable.attachment_renderer_object,
     color |-> "white",
     dark_color |-> "black"]

\* The fields apply_material! writes into the material: color, dark_color and
\* image, the handle asset_server.load gives for the texture path.
Written(renderable) ==
    [image |-> renderable.attachment_renderer_object,
     color |-> renderable.color,
     dark_color |-> renderable.dark_color]

\* Fault variant of Detach: a stale handle is never removed.
KeepAttached(st, handle, remove) == st

\* The else branches of apply_material!: a handle the entity holds for a
\* variant the renderable does not take is removed.
Detach(st, handle, remove) ==
    IF handle THEN [st EXCEPT !.commands = Append(@, remove)] ELSE st

\* Fault variant of HoldsHandle: the handle the child holds is never seen.
HoldsNoHandle(entity, k, m) == FALSE

\* $handle of apply_material!: the mesh child k of entity holds a handle of
\* material m, as mesh_query reads it.
HoldsHandle(entity, k, m) == m \in handles[entity][k]

\* One apply_material! invocation of spine_render for the mesh child k of
\* entity; st holds the child's materials in the eight stores and the commands
\* the child's turn has issued.
apply_material(st, variant, renderable, entity, k) ==
    LET m == variant.material
        handle == HoldsHandle(entity, k, m)
        insert == [op |-> "insert_handle", entity |-> entity, child |-> k,
                   material |-> m]
        remove == [op |-> "remove_handle", entity |-> entity, child |-> k,
                   material |-> m]
    IN
    IF renderable.attachment_renderer_object # None
    THEN IF Condition(variant, renderable)
         THEN IF handle
              THEN IF IsSome(st.materials[m])
                   THEN [st EXCEPT !.materials[m] = Some(Written(renderable))]
                   ELSE st
              ELSE [st EXCEPT !.materials[m] = Some(Written(renderable)),
                              !.commands = Append(@, insert)]
         ELSE Detach(st, handle, remove)
    ELSE Detach(st, handle, remove)

RECURSIVE ApplyMaterials(_, _, _, _, _)
ApplyMaterials(st, variants, renderable, entity, k) ==
    IF variants = <<>> THEN st
    ELSE ApplyMaterials(apply_material(st, Head(variants), renderable, entity, k),
                        Tail(variants), renderable, entity, k)

\* The mesh written for a renderable: indices, positions, zero normals, uvs.
RenderMesh(mesh, renderable) ==
    LET normals == [v \in 1..Len(renderable.vertices) |-> <<0, 0, 0>>]
        m1 == set_indices(mesh, "U16", renderable.indices)
        m2 == insert_attribute(m1, "Vertex_Position", "Float32x2", renderable.vertices)
        m3 == insert_attribute(m2, "Vertex_Normal", "Float32x3", normals)
    IN  insert_attribute(m3, "Vertex_Uv", "Float32x2", renderable.uvs)

\* renderables.get_mut(renderable_index) for the child at position k.
HasRenderable(renderables, k) == k <= Len(renderables)

\* mesh_query.get(*child) succeeds for the children holding a Mesh2dHandle.
IsMeshChild(entity, k) == children[entity][k] = "mesh"

\* Fault variant of Blank: the materials of the slot are dropped as well.
BlankAndDropMaterials(st) ==
    [st EXCEPT !.mesh = empty_mesh(@),
               !.materials = [v \in DOMAIN @ |-> Nothing]]

\* The else branch of `if let Some(renderable)`: empty_mesh(mesh) and nothing
\* else.
Blank(st) == [st EXCEPT !.mesh = empty_mesh(@)]

\* The body of spine_render's inner loop for the child at position k: the
\* child's mesh, its materials and the commands issued for it.
RenderChild(entity, k, renderables) ==
    LET st == [mesh |-> meshes[entity][k], materials |-> materials[entity][k],
               commands |-> <<>>]
    IN  IF HasRenderable(renderables, k)
        THEN ApplyMaterials([st EXCEPT !.mesh = RenderMesh(@, renderables[k])],
                            MaterialVariants, renderables[k], entity, k)
        ELSE Blank(st)

\* The commands issued for the children k.. of one controller, in child order;
\* out[k] is RenderChild of the mesh child k.
RECURSIVE ChildCommands(_, _)
ChildCommands(out, k) ==
    IF k \notin DOMAIN out THEN <<>>
    ELSE out[k].commands \o ChildCommands(out, k + 1)

\* The commands of spine_render's outer loop over the controllers in `order`.
RECURSIVE RenderCommands(_, _)
RenderCommands(order, out) ==
    IF order = <<>> THEN <<>>
    ELSE ChildCommands(out[Head(order)], 1) \o RenderCommands(Tail(order), out)

(***************************************************************************)
(* Deferred commands                                                       *)
(***************************************************************************)
\* One command applied to the world w = [spine, children, bones, handles,
\* materials].  Removing a handle component drops the last strong handle of its
\* material, which frees the material.
ApplyCommand(w, c) ==
    CASE c.op = "with_children" ->
            [w EXCEPT
                !.children[c.entity] = @ \o c.kinds,
                !.bones[c.entity] = @ \cup c.proxies,
                !.handles[c.entity] = @ \o [k \in DOMAIN c.kinds |-> {}],
                !.materials[c.entity] =
                    @ \o [k \in DOMAIN c.kinds |-> [m \in Materials |-> Nothing]]]
      [] c.op = "insert_spine" ->
            [w EXCEPT !.spine[c.entity] = Some(c.controller)]
      [] c.op = "insert_handle" ->
            [w EXCEPT !.handles[c.entity][c.child] = @ \cup {c.material}]
      [] c.op = "remove_handle" ->
            [w EXCEPT !.handles[c.entity][c.child] = @ \ {c.material},
                      !.materials[c.entity][c.child][c.material] = Nothing]

RECURSIVE ApplyCommands(_, _)
ApplyCommands(w, cmds) ==
    IF cmds = <<>> THEN w
    ELSE ApplyCommands(ApplyCommand(w, Head(cmds)), Tail(cmds))

(***************************************************************************)
(* Schedule                                                                *)
(***************************************************************************)
\* Fault variant of After: spine_render is registered without its .after().
AfterUnordered(system) ==
    CASE system = "Load" -> {}
      [] system = "Update" -> {"Load"}
      [] system = "SyncEntities" -> {"Update"}
      [] system = "SyncBones" -> {"SyncEntities"}
      [] system = "SyncEntitiesApplied" -> {"SyncBones"}
      [] system = "Render" -> {}

\* An ordering in which spine_update does not wait for spine_load.
AfterUpdateUnordered(system) ==
    CASE system = "Load" -> {}
      [] system = "Update" -> {}
      [] system = "SyncEntities" -> {"Update"}
      [] system = "SyncBones" -> {"SyncEntities"}
      [] system = "SyncEntitiesApplied" -> {"SyncBones"}
      [] system = "Render" -> {"SyncEntitiesApplied", "Load"}

\* An ordering in which spine_sync_entities_applied waits for spine_update only.
AfterAppliedEarly(system) ==
    CASE system = "Load" -> {}
      [] system = "Update" -> {"Load"}
      [] system = "SyncEntities" -> {"Update"}
      [] system = "SyncBones" -> {"SyncEntities"}
      [] system = "SyncEntitiesApplied" -> {"Update"}
      [] system = "Render" -> {"SyncEntitiesApplied", "SyncBones"}

\* The .after() constraints of SpinePlugin::build.
After(system) ==
    CASE system = "Load" -> {}
      [] system = "Update" -> {"Load"}
      [] system = "SyncEntities" -> {"Update"}
      [] system = "SyncBones" -> {"SyncEntities"}
      [] system = "SyncEntitiesApplied" -> {"SyncBones"}
      [] system = "Render" -> {"SyncEntitiesApplied"}

\* The executor starts a system once per tick, after the systems it is ordered after.
CanStart(system) ==
    /\ system \notin Range(started)
    /\ After(system) \subseteq done

Running(system) == system \in Range(started) /\ system \notin done

Start(system) == started' = Append(started, system)

Finish(system) == done' = done \cup {system}

(***************************************************************************)
(* Initial state                                                           *)
(***************************************************************************)
\* A SkeletonData asset before (resolved = FALSE) or after the asset server has
\* loaded it, its atlas and its source; loader and data start as None.
NewAsset(resolved) ==
    [present |-> resolved, atlas |-> resolved, source |-> resolved,
     loader |-> FALSE, data |-> Nothing]

\* The world before the first tick: the entities of `spawned` carry a default
\* SpineBundle, the others are not spawned yet.
InitWorld(spawned) ==
    /\ loader = [e \in Entities |-> IF e \in spawned THEN "Loading" ELSE "Unspawned"]
    /\ spine = [e \in Entities |-> Nothing]
    /\ children = [e \in Entities |-> <<>>]
    /\ bones = [e \in Entities |-> {}]
    /\ handles = [e \in Entities |-> <<>>]
    /\ meshes = [e \in Entities |-> <<>>]
    /\ materials = [e \in Entities |-> <<>>]
    /\ commands = <<>>
    /\ local_ready = <<>>
    /\ ready_events = <<>>
    /\ events = <<>>
    /\ lock = None
    /\ spine_events = <<>>
    /\ started = <<>>
    /\ done = {}
    /\ advanced = {}
    /\ frame = [e \in Entities |-> Nothing]
    /\ last_frame = [e \in Entities |-> Nothing]
    /\ parsed = [a \in Assets |-> 0]
    /\ tried = {}
    /\ failures = [e \in Entities |-> 0]
    /\ transitions = [e \in Entities |-> 0]
    /\ sent = [e \in Entities |-> 0]
    /\ age = [e \in Entities |-> Nothing]
    /\ enqueued = <<>>
    /\ raised = 0
    /\ delta = 1
    /\ steps = [e \in Entities |-> <<>>]
    /\ dispose_calls = <<>>
    /\ bone_local = [e \in Entities |-> "setup"]
    /\ proxy_local = [e \in Entities |-> "spawned"]
    /\ driven = [e \in Entities |-> FALSE]
    /\ given = [e \in Entities |-> Nothing]
    /\ installs = [e \in Entities |-> 0]
    /\ raisers = <<>>

Init ==
    /\ handle_of \in [Entities -> Assets]
    /\ parses \in [Assets -> BOOLEAN]
    /\ \A a \in Assets \ Range(handle_of) : parses[a]
    /\ assets = [a \in Assets |-> NewAsset(FALSE)]
    /\ InitWorld(Entities)

(***************************************************************************)
(* Actions                                                                 *)
(***************************************************************************)
\* The asset server resolves one more asset between two ticks: the
\* SkeletonData itself, its atlas, or its json/binary source.
ResolveAsset(a, part) ==
    /\ started = <<>>
    /\ a \in Range(handle_of)
    /\ ~assets[a][part]
    /\ assets' = [assets EXCEPT ![a][part] = TRUE]
    /\ UNCHANGED <<handle_of, parses, loader, spine, children, bones, handles,
                   meshes, materials, commands, local_ready, ready_events, events,
                   lock, spine_events, started, done, advanced, frame, last_frame, parsed, tried, failures,
                   transitions, sent, age, enqueued, raised, delta, steps,
                   dispose_calls,
                   bone_local, proxy_local, driven, given, installs, raisers>>

\* Fault variant of SendReady: the events go out in the run of the transition.
SendReadySameTick(queued, became) == became

\* Fault variant of ClearReady: the queue of the previous run is kept.
KeepReady(ready) == ready

\* The SpineReadyEvent sent by one run of spine_load: one for every entity
\* `queued` by the previous run; the entities that `became` Ready in this run
\* are only queued.
SendReady(queued, became) == queued

\* local.ready = vec![]: the queue the loop of spine_load starts from.
ClearReady(ready) == <<>>

\* fn spine_load
spine_load ==
    /\ CanStart("Load")
    /\ \E order \in QueryOrders(Entities) :
        LET st == LoadAll([loader |-> loader, assets |-> assets, meshes |-> meshes,
                           commands |-> commands,
                           local_ready |-> ClearReady(local_ready),
                           transitions |-> transitions, parsed |-> parsed,
                           tried |-> tried, failures |-> failures], order)
            now == SendReady(local_ready, st.local_ready)
        IN  /\ ready_events' = ready_events \o now
            /\ sent' = [e \in Entities |->
                          sent[e] + Cardinality({i \in DOMAIN now : now[i] = e})]
            /\ loader' = st.loader
            /\ assets' = st.assets
            /\ meshes' = st.meshes
            /\ commands' = st.commands
            /\ local_ready' = st.local_ready
            /\ transitions' = st.transitions
            /\ parsed' = st.parsed
            /\ tried' = st.tried
            /\ failures' = st.failures
            /\ age' = [e \in Entities |->
                          IF st.transitions[e] > transitions[e] THEN Some(0) ELSE age[e]]
    /\ Start("Load")
    /\ Finish("Load")
    /\ UNCHANGED <<handle_of, parses, spine, children, bones, handles, materials,
                   events, lock, spine_events, advanced, frame, last_frame, enqueued, raised, delta, steps,
                   dispose_calls,
                   bone_local, proxy_local, driven, given, installs, raisers>>

\* Fault variant of QueryEntity: every closure captures the same entity.
QueryEntityFixed(event_entity) == "e1"

\* spine_query.get_mut(event.0): the entity returned with the controller, which
\* the closure captures.
QueryEntity(event_entity) == event_entity

\* Fault variant of ReadyRead: every entity is visited in every run.
ReadyReadAll(ready) == Entities

\* spine_ready_events.iter(): the entities of the events not read before.
ReadyRead(ready) == Range(ready)

\* spine_update, first loop: set_listener for every SpineReadyEvent whose entity
\* spine_query finds.
UpdateListeners ==
    /\ CanStart("Update")
    /\ Start("Update")
    /\ spine' = [e \in Entities |->
                    IF e \in ReadyRead(ready_events) /\ IsSome(spine[e])
                    THEN Some([Unwrap(spine[e]) EXCEPT !.listener = TRUE,
                                                       !.captured = QueryEntity(e)])
                    ELSE spine[e]]
    /\ installs' = [e \in Entities |->
                       IF e \in ReadyRead(ready_events) /\ IsSome(spine[e])
                          /\ installs[e] < AgeCap
                       THEN installs[e] + 1
                       ELSE installs[e]]
    /\ UNCHANGED <<handle_of, parses, assets, loader, children, bones, handles,
                   meshes, materials, commands, local_ready, ready_events, events,
                   lock, spine_events, done, advanced, frame, last_frame, parsed, tried, failures, transitions,
                   sent, age, enqueued, raised, delta, steps,
                   dispose_calls,
                   bone_local, proxy_local, driven, given, raisers>>

\* The callback is the disposal of a track entry.
IsDisposeCallback(cb) == cb.event_type = "Dispose"

\* Fault variant of Elapsed: a fixed step instead of the tick's delta.
FixedStep(d) == 1

\* The argument of spine.update(): time.delta_seconds().
Elapsed(d) == d

\* The root bone's local transform after an advance whose animation computes
\* `pose` for it: a bone marked externally driven keeps its local transform.
Posed(e, pose) == IF driven[e] THEN bone_local[e] ELSE pose

\* spine_update, second loop: spine.update() of one controller, which raises
\* one of the callback sequences of Raised and computes one of Poses for the
\* root bone; its listener, if set, takes the lock for each push.
UpdateAdvance(e, Raised, Poses) ==
    /\ Running("Update")
    /\ lock = None
    /\ e \in Controllers \ advanced
    /\ \E cbs \in Raised :
        /\ raised' = raised + Len(cbs)
        /\ IF Unwrap(spine[e]).listener
           THEN /\ events' = PushAll(events, Unwrap(spine[e]).captured, cbs)
                /\ enqueued' = PushAll(enqueued, Unwrap(spine[e]).captured, cbs)
                /\ raisers' = raisers \o
                        [i \in 1..Len(PushAll(<<>>, e, cbs)) |-> e]
                /\ dispose_calls' = dispose_calls \o
                        [i \in 1..Len(SelectSeq(cbs, IsDisposeCallback)) |-> e]
           ELSE UNCHANGED <<events, enqueued, dispose_calls, raisers>>
    /\ advanced' = advanced \cup {e}
    /\ steps' = [steps EXCEPT ![e] = Append(@, Elapsed(delta))]
    /\ \E pose \in Poses : bone_local' = [bone_local EXCEPT ![e] = Posed(e, pose)]
    /\ UNCHANGED <<handle_of, parses, assets, loader, spine, children, bones,
                   handles, meshes, materials, commands, local_ready, ready_events,
                   lock, spine_events, started, done, frame, last_frame, parsed, tried,
                   failures, transitions, sent, age, delta,
                   proxy_local, driven, given, installs>>

\* Fault variant of LoopOver: the lock is taken before the advance loop.
LoopOverAtOnce(visited) == TRUE

\* The `for (_, mut spine) in spine_query.iter_mut()` loop has visited every
\* controller; the block that locks the queue comes after it.
LoopOver(visited) == visited = Controllers

\* spine_update: local.events.lock() once every controller is advanced.
UpdateLock ==
    /\ Running("Update")
    /\ lock = None
    /\ LoopOver(advanced)
    /\ lock' = "spine_update"
    /\ UNCHANGED <<handle_of, parses, assets, loader, spine, children, bones,
                   handles, meshes, materials, commands, local_ready, ready_events,
                   events, spine_events, started, done, advanced, frame, last_frame, parsed, tried, failures,
                   transitions, sent, age, enqueued, raised, delta, steps,
                   dispose_calls,
                   bone_local, proxy_local, driven, given, installs, raisers>>

\* spine_update: one turn of the while-let loop, pop_front and send.
UpdatePop ==
    /\ lock = "spine_update"
    /\ LoopContinues(events)
    /\ spine_events' = Append(spine_events, pop_front(events).event)
    /\ events' = pop_front(events).rest
    /\ UNCHANGED <<handle_of, parses, assets, loader, spine, children, bones,
                   handles, meshes, materials, commands, local_ready, ready_events,
                   lock, started, done, advanced, frame, last_frame, parsed, tried, failures, transitions, sent,
                   age, enqueued, raised, delta, steps,
                   dispose_calls,
                   bone_local, proxy_local, driven, given, installs, raisers>>

\* spine_update: the queue is empty, the guard drops and the system returns.
UpdateUnlock ==
    /\ lock = "spine_update"
    /\ ~LoopContinues(events)
    /\ lock' = None
    /\ Finish("Update")
    /\ UNCHANGED <<handle_of, parses, assets, loader, spine, children, bones,
                   handles, meshes, materials, commands, local_ready, ready_events,
                   events, spine_events, started, advanced, frame, last_frame, parsed, tried, failures,
                   transitions, sent, age, enqueued, raised, delta, steps,
                   dispose_calls,
                   bone_local, proxy_local, driven, given, installs, raisers>>

\* The controllers whose bone proxies are in the world.
Proxied == {e \in Entities : IsSome(spine[e]) /\ bones[e] # {}}

\* spine_sync_entities: every proxy gets the runtime's local bone transform.
sync_entities(proxies) ==
    [e \in Entities |-> IF e \in Proxied THEN bone_local[e] ELSE proxies[e]]

\* spine_sync_entities_applied: the runtime's bone gets the proxy's local
\* transform where the bone is marked externally driven.
sync_entities_applied(locals) ==
    [e \in Entities |->
        IF e \in Proxied /\ driven[e] THEN proxy_local[e] ELSE locals[e]]

\* spine_sync_entities, spine_sync_bones, spine_sync_entities_applied at their
\* place in the schedule; spine_sync_bones recomputes global transforms, which
\* are not part of the state.
Sync(system) ==
    /\ system \in {"SyncEntities", "SyncBones", "SyncEntitiesApplied"}
    /\ CanStart(system)
    /\ Start(system)
    /\ Finish(system)
    /\ proxy_local' = IF system = "SyncEntities" THEN sync_entities(proxy_local)
                      ELSE proxy_local
    /\ bone_local' = IF system = "SyncEntitiesApplied"
                     THEN sync_entities_applied(bone_local)
                     ELSE bone_local
    /\ UNCHANGED <<handle_of, parses, assets, loader, spine, children, bones,
                   handles, meshes, materials, commands, local_ready, ready_events,
                   events, lock, spine_events, advanced, frame, last_frame, parsed, tried, failures, transitions,
                   sent, age, enqueued, raised, delta, steps,
                   dispose_calls,
                   driven, given, installs, raisers>>

\* The entities spine_query of spine_render matches: a Spine and a Children.
RenderControllers == {e \in Entities : IsSome(spine[e]) /\ children[e] # <<>>}

\* spine.0.renderables() of one controller: at most one renderable per slot.
FrameLists(e, Input) ==
    Lists(Input[Unwrap(spine[e]).asset][Unwrap(spine[e]).premultiplied_alpha],
          Cardinality(Slots(Unwrap(spine[e]).asset)))

\* The renderable lists of one frame, one list of choices[e] per controller e of S.
RECURSIVE Frames(_, _)
Frames(S, choices) ==
    IF S = {} THEN {<<>>}
    ELSE LET e == CHOOSE x \in S : TRUE
         IN  {(e :> l) @@ f : l \in choices[e], f \in Frames(S \ {e}, choices)}

\* fn spine_render; Input[a][pma] is the set of renderables a frame may hold.
spine_render(Input) ==
    /\ CanStart("Render")
    /\ \E order \in QueryOrders(RenderControllers) :
       \E lists \in Frames(RenderControllers,
                           [e \in RenderControllers |-> FrameLists(e, Input)]) :
        /\ LET out == [e \in RenderControllers |->
                        [k \in {i \in DOMAIN children[e] : IsMeshChild(e, i)} |->
                            RenderChild(e, k, lists[e])]]
           IN  /\ meshes' = [e \in Entities |->
                    IF e \in RenderControllers
                    THEN [k \in DOMAIN meshes[e] |->
                            IF IsMeshChild(e, k) THEN out[e][k].mesh ELSE meshes[e][k]]
                    ELSE meshes[e]]
               /\ materials' = [e \in Entities |->
                    IF e \in RenderControllers
                    THEN [k \in DOMAIN materials[e] |->
                            IF IsMeshChild(e, k) THEN out[e][k].materials
                            ELSE materials[e][k]]
                    ELSE materials[e]]
               /\ commands' = commands \o RenderCommands(order, out)
        /\ frame' = [e \in Entities |->
                        IF e \in RenderControllers THEN Some(lists[e]) ELSE Nothing]
    /\ Start("Render")
    /\ Finish("Render")
    /\ UNCHANGED <<handle_of, parses, assets, loader, spine, children, bones,
                   handles, local_ready, ready_events, events, lock, spine_events,
                   advanced, last_frame, parsed, tried, failures, transitions, sent, age, enqueued,
                   raised, delta, steps,
                   dispose_calls,
                   bone_local, proxy_local, driven, given, installs, raisers>>

\* The end of the stage: the deferred commands are applied in order, and the
\* next tick starts with fresh event buffers and an elapsed time of Deltas.
EndTick(Deltas) ==
    /\ done = Systems
    /\ delta' \in Deltas
    /\ steps' = [e \in Entities |-> <<>>]
    /\ dispose_calls' = <<>>
    /\ LET w == ApplyCommands([spine |-> spine, children |-> children,
                               bones |-> bones, handles |-> handles,
                               materials |-> materials], commands)
       IN  /\ spine' = w.spine
           /\ children' = w.children
           /\ bones' = w.bones
           /\ handles' = w.handles
           /\ materials' = w.materials
    /\ commands' = <<>>
    /\ ready_events' = <<>>
    /\ spine_events' = <<>>
    /\ enqueued' = <<>>
    /\ raisers' = <<>>
    /\ raised' = 0
    /\ started' = <<>>
    /\ done' = {}
    /\ advanced' = {}
    /\ frame' = [e \in Entities |-> Nothing]
    /\ tried' = {}
    /\ last_frame' = [e \in Entities |->
                        IF IsSome(frame[e]) THEN frame[e] ELSE last_frame[e]]
    /\ age' = [e \in Entities |->
                  IF ~IsSome(age[e]) THEN Nothing
                  ELSE IF Unwrap(age[e]) < AgeCap THEN Some(Unwrap(age[e]) + 1)
                  ELSE Some(AgeCap)]
    /\ UNCHANGED <<handle_of, parses, assets, loader, meshes, local_ready, events,
                   lock, parsed, failures, transitions, sent,
                   bone_local, proxy_local, driven, given, installs>>

\* External code, run between spine_sync_entities and spine_sync_bones, marks
\* the root bone of e externally driven and gives its proxy the transform t.
Puppet(e, t) ==
    /\ "SyncEntities" \in done
    /\ "SyncBones" \notin Range(started)
    /\ e \in Proxied
    /\ given[e] # Some(t)
    /\ driven' = [driven EXCEPT ![e] = TRUE]
    /\ proxy_local' = [proxy_local EXCEPT ![e] = t]
    /\ given' = [given EXCEPT ![e] = Some(t)]
    /\ UNCHANGED <<handle_of, parses, assets, loader, spine, children, bones,
                   handles, meshes, materials, commands, local_ready, ready_events,
                   events, lock, spine_events, started, done, advanced, frame,
                   last_frame, parsed, tried, failures, transitions, sent, age,
                   enqueued, raised, delta, steps, dispose_calls, bone_local, installs, raisers>>

\* External code clears the mark of the root bone of e.
Release(e) ==
    /\ "SyncEntities" \in done
    /\ "SyncBones" \notin Range(started)
    /\ driven[e]
    /\ driven' = [driven EXCEPT ![e] = FALSE]
    /\ given' = [given EXCEPT ![e] = Nothing]
    /\ UNCHANGED <<handle_of, parses, assets, loader, spine, children, bones,
                   handles, meshes, materials, commands, local_ready, ready_events,
                   events, lock, spine_events, started, done, advanced, frame,
                   last_frame, parsed, tried, failures, transitions, sent, age,
                   enqueued, raised, delta, steps, dispose_calls, bone_local,
                   proxy_local, installs, raisers>>

\* External code spawns the SpineBundle of an entity between two ticks.
Spawn(e) ==
    /\ started = <<>>
    /\ loader[e] = "Unspawned"
    /\ loader' = [loader EXCEPT ![e] = "Loading"]
    /\ UNCHANGED <<handle_of, parses, assets, spine, children, bones,
                   handles, meshes, materials, commands, local_ready, ready_events,
                   events, lock, spine_events, started, done, advanced, frame,
                   last_frame, parsed, tried, failures, transitions, sent, age,
                   enqueued, raised, delta, steps, dispose_calls, bone_local,
                   proxy_local, driven, given, installs, raisers>>

Environment ==
    \E a \in Assets : \E part \in {"present", "atlas", "source"} : ResolveAsset(a, part)

Next ==
    \/ Environment
    \/ spine_load
    \/ UpdateListeners
    \/ \E e \in Entities : UpdateAdvance(e, CallbackSeqs(MaxCallbacks - raised), {"setup"})
    \/ UpdateLock
    \/ UpdatePop
    \/ UpdateUnlock
    \/ \E s \in Systems : Sync(s)
    \/ spine_render([a \in Assets |-> [pma \in BOOLEAN |-> NoRenderables(a, pma)]])
    \/ EndTick({1})

Spec == Init /\ [][Next]_vars

(***************************************************************************)
(* The mesh and material pipeline under every frame of the catalogue: one  *)
(* entity's skeleton parses and its animation state raises no callback, so *)
(* the queue is empty whenever spine_update locks it; the other entity's   *)
(* assets are loaded from the start and its skeleton never parses.         *)
(***************************************************************************)
InitRender ==
    /\ handle_of \in {h \in [Entities -> Assets] : h["e1"] # h["e2"]}
    /\ parses = [a \in Assets |-> a = handle_of["e1"]]
    /\ assets = [a \in Assets |-> NewAsset(a = handle_of["e2"])]
    /\ InitWorld(Entities)

NextRender ==
    \/ Environment
    \/ spine_load
    \/ UpdateListeners
    \/ \E e \in Entities : UpdateAdvance(e, Silent(MaxCallbacks - raised), {"setup"})
    \/ UpdateLock
    \/ UpdateUnlock
    \/ \E s \in Systems : Sync(s)
    \/ spine_render([a \in Assets |-> [pma \in BOOLEAN |-> Renderables(a, pma)]])
    \/ EndTick({1})

SpecRender == InitRender /\ [][NextRender]_vars

(***************************************************************************)
(* The animation advance under ticks of any elapsed time, zero included;   *)
(* the animation states raise no callback and the frames are empty.        *)
(***************************************************************************)
\* Values of time.delta_seconds().
Deltas == {0, 1, 2}

NextTime ==
    \/ Environment
    \/ spine_load
    \/ UpdateListeners
    \/ \E e \in Entities : UpdateAdvance(e, Silent(MaxCallbacks - raised), {"setup"})
    \/ UpdateLock
    \/ UpdateUnlock
    \/ \E s \in Systems : Sync(s)
    \/ spine_render([a \in Assets |-> [pma \in BOOLEAN |-> NoRenderables(a, pma)]])
    \/ EndTick(Deltas)

SpecTime == Init /\ [][NextTime]_vars

(***************************************************************************)
(* The three synchronization phases with external code that puppets the    *)
(* root bones, under animations that pose them; no callback, empty frames. *)
(***************************************************************************)
\* Local transforms the animations compute for a root bone.
AnimationPoses == {"pose1", "pose2"}

\* Local transforms external code gives a proxy.
ExternalTransforms == {"t1", "t2"}

NextSync ==
    \/ Environment
    \/ spine_load
    \/ UpdateListeners
    \/ \E e \in Entities :
            UpdateAdvance(e, Silent(MaxCallbacks - raised), AnimationPoses)
    \/ UpdateLock
    \/ UpdateUnlock
    \/ \E s \in Systems : Sync(s)
    \/ \E e \in Entities : \E t \in ExternalTransforms : Puppet(e, t)
    \/ \E e \in Entities : Release(e)
    \/ spine_render([a \in Assets |-> [pma \in BOOLEAN |-> NoRenderables(a, pma)]])
    \/ EndTick({1})

SpecSync == InitRender /\ [][NextSync]_vars

(***************************************************************************)
(* Two entities that share one skeleton-data asset, the second one spawned *)
(* at any time; no callback, empty frames.                                 *)
(***************************************************************************)
InitCache ==
    /\ handle_of \in {h \in [Entities -> Assets] : h["e1"] = h["e2"]}
    /\ parses \in [Assets -> BOOLEAN]
    /\ \A a \in Assets \ Range(handle_of) : parses[a]
    /\ assets = [a \in Assets |-> NewAsset(a \notin Range(handle_of))]
    /\ InitWorld({"e1"})

NextCache ==
    \/ Environment
    \/ Spawn("e2")
    \/ spine_load
    \/ UpdateListeners
    \/ \E e \in Entities : UpdateAdvance(e, Silent(MaxCallbacks - raised), {"setup"})
    \/ UpdateLock
    \/ UpdateUnlock
    \/ \E s \in Systems : Sync(s)
    \/ spine_render([a \in Assets |-> [pma \in BOOLEAN |-> NoRenderables(a, pma)]])
    \/ EndTick({1})

SpecCache == InitCache /\ [][NextCache]_vars

(***************************************************************************)
(* Properties                                                              *)
(***************************************************************************)
\* Number of SpineReadyEvent for e among the events of the current tick.
ReadyCount(e) == Cardinality({i \in DOMAIN ready_events : ready_events[i] = e})

\* The assets spine_load needs for e are all resolved.
Resolved(e) ==
    LET asset == assets[handle_of[e]]
    IN  asset.present /\ asset.atlas /\ asset.source

\* C1: an entity whose skeleton data, atlas and source are resolved and parse
\* becomes Ready in the next run of spine_load, and becomes Ready only once; its
\* SpineReadyEvent is sent exactly once, by the spine_load of the tick after the
\* transition: not in the transition tick, and not later.
C1_ReadyOnceNextTick ==
    \A e \in Entities :
        /\ transitions[e] <= 1
        /\ (loader[e] = "Ready") = (transitions[e] = 1)
        /\ ("Load" \in done /\ Resolved(e) /\ parses[handle_of[e]]
                => loader[e] = "Ready")
        /\ sent[e] <= 1
        /\ ReadyCount(e) <= 1
        /\ (ReadyCount(e) = 1 => age[e] = Some(1))
        /\ (~IsSome(age[e]) \/ age[e] = Some(0) => sent[e] = 0)
        /\ (age[e] = Some(1) /\ "Load" \in done => sent[e] = 1 /\ ReadyCount(e) = 1)
        /\ (IsSome(age[e]) /\ Unwrap(age[e]) >= 2 => sent[e] = 1 /\ ReadyCount(e) = 0)

\* The SpineReadyEvent of an entity is out, one tick after its transition.
C1_Witness ==
    \E e \in Entities :
        /\ ReadyCount(e) = 1
        /\ age[e] = Some(1)
        /\ sent[e] = 1
        /\ transitions[e] = 1

\* The order of the six stages.
Pipeline ==
    <<"Load", "Update", "SyncEntities", "SyncBones", "SyncEntitiesApplied", "Render">>

\* C2: in every tick the systems started so far are an initial part of Load,
\* Update, SyncEntities, SyncBones, SyncEntitiesApplied, Render, each started at
\* most once, and a system has started only if the one before it has finished.
C2_StrictPipeline ==
    /\ Len(started) <= Len(Pipeline)
    /\ started = SubSeq(Pipeline, 1, Len(started))
    /\ \A i \in 2..Len(started) : started[i - 1] \in done
    /\ done \subseteq Range(started)

\* A tick in which all six stages have run, in order.
C2_Witness ==
    /\ started = Pipeline
    /\ done = Systems

\* C3: no SpineEvent is sent before every controller is advanced, and the events
\* sent so far are the first events the listeners pushed in this tick, in push
\* order, whichever controllers pushed them.
C3_BatchedFifo ==
    /\ (spine_events # <<>> => advanced = Controllers)
    /\ (events # <<>> /\ lock = "spine_update" => advanced = Controllers)
    /\ Len(spine_events) <= Len(enqueued)
    /\ spine_events = SubSeq(enqueued, 1, Len(spine_events))

\* Two controllers pushed one event each, and both events are out.
C3_Witness ==
    /\ Len(spine_events) = 2
    /\ spine_events[1].entity # spine_events[2].entity
    /\ spine_events[1].type # spine_events[2].type
    /\ Cardinality(advanced) = 2

\* C4: when spine_update has returned, the events sent in the tick are exactly
\* the events pushed in the tick, each once, and the queue is empty; the queue
\* holds events only while spine_update runs, so none is carried to a later tick.
C4_DrainedEveryTick ==
    /\ ("Update" \in done => events = <<>> /\ spine_events = enqueued)
    /\ (~Running("Update") => events = <<>>)
    /\ (~Running("Update") /\ "Update" \notin done => spine_events = <<>>)
    /\ spine_events \o events = enqueued

\* spine_update has returned after sending a named event and a lifecycle event.
C4_Witness ==
    /\ "Update" \in done
    /\ Len(spine_events) = 2
    /\ \E i \in DOMAIN spine_events : spine_events[i].type = "Event"
    /\ \E i \in DOMAIN spine_events : spine_events[i].type = "Dispose"
    /\ events = <<>>

\* The mesh-slot children of e in the world.
MeshChildCount(e) ==
    Cardinality({k \in DOMAIN children[e] : children[e][k] = "mesh"})

\* The mesh-slot children of e that spine_load has spawned in this tick and
\* that enter the world when the tick's commands are applied.
PendingMeshChildren(e) ==
    LET spawns == {i \in DOMAIN commands :
                      commands[i].op = "with_children" /\ commands[i].entity = e}
    IN  Cardinality(UNION {{<<i, k>> : k \in {j \in DOMAIN commands[i].kinds :
                                                commands[i].kinds[j] = "mesh"}} :
                           i \in spawns})

\* C5: from the Loading -> Ready transition on, the mesh-slot children spawned
\* for the entity are as many as the skeleton has slots; they are in the world,
\* with the controller, from the end of the transition tick, and their number is
\* the slot count in every later state, whatever the frames spine_render gets.
C5_SlotChildrenFixed ==
    \A e \in Entities :
        LET slots == Cardinality(Slots(handle_of[e]))
        IN  /\ (loader[e] = "Ready"
                    => MeshChildCount(e) + PendingMeshChildren(e) = slots)
            /\ (IsSome(spine[e]) => MeshChildCount(e) = slots)
            /\ (IsSome(age[e]) /\ Unwrap(age[e]) >= 1
                    => IsSome(spine[e]) /\ MeshChildCount(e) = slots)
            /\ (loader[e] # "Ready" => MeshChildCount(e) = 0)

\* Two ticks after the transition a two-slot controller renders an empty frame,
\* after a frame that drew its second slot.
C5_Witness ==
    \E e \in Entities :
        /\ "Render" \in done
        /\ age[e] = Some(2)
        /\ IsSome(frame[e])
        /\ Unwrap(frame[e]) = <<>>
        /\ MeshChildCount(e) = 2
        /\ \E m \in Materials : IsSome(materials[e][2][m])

\* The world as it is once the commands issued so far in the tick are applied.
AtTickEnd ==
    ApplyCommands([spine |-> spine, children |-> children, bones |-> bones,
                   handles |-> handles, materials |-> materials], commands)

\* C6: once the commands of a tick are applied, every mesh-slot child holds at
\* most one of the eight material handles; in particular it does at every tick
\* boundary, where no command is pending.
C6_AtMostOneHandle ==
    \A e \in Entities :
        /\ \A k \in DOMAIN AtTickEnd.handles[e] :
                Cardinality(AtTickEnd.handles[e][k]) <= 1
        /\ (started = <<>> =>
                \A k \in DOMAIN handles[e] : Cardinality(handles[e][k]) <= 1)

\* A slot that holds the handle of one variant gets a renderable of another:
\* the old handle's removal and the new handle's insertion are both pending.
C6_Witness ==
    \E e \in Entities : \E k \in DOMAIN handles[e] : \E m1, m2 \in Materials :
        /\ m1 # m2
        /\ handles[e][k] = {m1}
        /\ [op |-> "remove_handle", entity |-> e, child |-> k, material |-> m1]
                \in Range(commands)
        /\ [op |-> "insert_handle", entity |-> e, child |-> k, material |-> m2]
                \in Range(commands)

\* The geometry a mesh holds.
Geometry(mesh) ==
    [vertices |-> mesh.attributes["Vertex_Position"].values,
     normals |-> mesh.attributes["Vertex_Normal"].values,
     uvs |-> mesh.attributes["Vertex_Uv"].values,
     indices |-> Unwrap(mesh.indices).data]

\* C7: after spine_render, the mesh of the child at position k holds the
\* vertices, indices and uvs of the k-th renderable of the frame and one zero
\* normal per vertex, and nothing else; with no k-th renderable it holds no
\* vertex, normal, uv or index.
C7_MeshIsFrameGeometry ==
    "Render" \in done =>
        \A e \in RenderControllers :
            \A k \in {i \in DOMAIN children[e] : children[e][i] = "mesh"} :
                LET renderables == Unwrap(frame[e])
                    mesh == meshes[e][k]
                IN  /\ DOMAIN mesh.attributes =
                            {"Vertex_Position", "Vertex_Normal", "Vertex_Uv"}
                    /\ IsSome(mesh.indices)
                    /\ Geometry(mesh) =
                        IF k <= Len(renderables)
                        THEN [vertices |-> renderables[k].vertices,
                              normals |-> [v \in 1..Len(renderables[k].vertices)
                                              |-> <<0, 0, 0>>],
                              uvs |-> renderables[k].uvs,
                              indices |-> renderables[k].indices]
                        ELSE [vertices |-> <<>>, normals |-> <<>>, uvs |-> <<>>,
                              indices |-> <<>>]

\* A frame of one renderable for a two-slot controller whose second slot was
\* drawn by an earlier frame: the list has shrunk.
C7_Witness ==
    \E e \in Entities :
        /\ "Render" \in done
        /\ IsSome(frame[e])
        /\ Len(Unwrap(frame[e])) = 1
        /\ MeshChildCount(e) = 2
        /\ \E m \in Materials : IsSome(materials[e][2][m])
        /\ Geometry(meshes[e][1]).vertices # <<>>
        /\ Geometry(meshes[e][2]).vertices = <<>>

\* The spawn and insert commands pending for e.
BuildCommands(cmds, e) ==
    {i \in DOMAIN cmds :
        cmds[i].entity = e /\ cmds[i].op \in {"with_children", "insert_spine"}}

\* C8: no step taken while an entity's loader is Ready makes another transition
\* for it, issues a spawn or insert command for it, puts it on the ready queue,
\* or changes the skeleton data of its controller; the loader stays Ready.
C8_BuiltOnce ==
    [][\A e \in Entities :
        loader[e] = "Ready" =>
            /\ loader'[e] = "Ready"
            /\ transitions'[e] = transitions[e]
            /\ Cardinality(BuildCommands(commands', e))
                    <= Cardinality(BuildCommands(commands, e))
            /\ (e \in Range(local_ready') => e \in Range(local_ready))
            /\ (IsSome(spine[e]) =>
                    /\ IsSome(spine'[e])
                    /\ Unwrap(spine'[e]).skeleton_data = Unwrap(spine[e]).skeleton_data
                    /\ children'[e] = children[e]
                    /\ bones'[e] = bones[e])]_vars

\* spine_load has run again two ticks after the entity's transition.
C8_Witness ==
    \E e \in Entities :
        /\ loader[e] = "Ready"
        /\ age[e] = Some(2)
        /\ "Load" \in done
        /\ IsSome(spine[e])
        /\ commands = <<>>

\* C9: an entity whose SpineReadyEvent is among the tick's events has its
\* controller, its mesh-slot children and the proxies of all its bones in the
\* world, and no spawn or insert command for it is pending.
C9_ReadyMeansFormed ==
    \A e \in Range(ready_events) :
        LET a == handle_of[e]
        IN  /\ IsSome(spine[e])
            /\ Unwrap(spine[e]).asset = a
            /\ MeshChildCount(e) = Cardinality(Slots(a))
            /\ "bone" \in Range(children[e])
            /\ {p.handle : p \in bones[e]} = DOMAIN BoneParent(a)
            /\ BuildCommands(commands, e) = {}

\* The SpineReadyEvent of a controller with two slots and three bones is out.
C9_Witness ==
    \E e \in Range(ready_events) :
        /\ IsSome(spine[e])
        /\ MeshChildCount(e) = 2
        /\ Cardinality(bones[e]) = 3

\* The material of the variant a renderable takes.
VariantOf(renderable) ==
    LET i == CHOOSE j \in DOMAIN MaterialVariants :
                Condition(MaterialVariants[j], renderable)
    IN  MaterialVariants[i].material

\* The slot k of e holds the handle of variant v1 from an earlier frame, and
\* the frame just rendered gives it a textured renderable of another variant.
VariantSwitch(e, k, v1) ==
    /\ "Render" \in done'
    /\ "Render" \notin done
    /\ k \in DOMAIN handles[e]
    /\ handles[e][k] = {v1}
    /\ IsSome(frame'[e])
    /\ k <= Len(Unwrap(frame'[e]))
    /\ Unwrap(frame'[e])[k].attachment_renderer_object # None
    /\ VariantOf(Unwrap(frame'[e])[k]) # v1

\* C10: when a slot that holds the handle of variant V1 is rendered with a
\* textured renderable of another variant V2, then with the frame's commands
\* applied the slot holds the V2 handle and no other, the V2 material holds the
\* renderable's texture, color and dark color, and the frame has not written
\* the V1 material.
C10_VariantSwitch ==
    [][\A e \in Entities : \A k \in DOMAIN handles[e] : \A v1 \in Materials :
        VariantSwitch(e, k, v1) =>
            LET renderable == Unwrap(frame'[e])[k]
                v2 == VariantOf(renderable)
                w == ApplyCommands([spine |-> spine, children |-> children,
                                    bones |-> bones, handles |-> handles,
                                    materials |-> materials'], commands')
            IN  /\ w.handles[e][k] = {v2}
                /\ materials'[e][k][v2] =
                        Some([image |-> renderable.attachment_renderer_object,
                              color |-> renderable.color,
                              dark_color |-> renderable.dark_color])
                /\ w.materials[e][k][v2] = materials'[e][k][v2]
                /\ materials'[e][k][v1] = materials[e][k][v1]]_vars

\* After the frame a slot still holds the Additive handle of an earlier frame
\* while its renderable is Normal, with another texture and other tints: the
\* Normal material is written and the switch is in the tick's commands.
C10_Witness ==
    \E e \in Entities : \E k \in DOMAIN handles[e] :
        /\ "Render" \in done
        /\ IsSome(frame[e])
        /\ k <= Len(Unwrap(frame[e]))
        /\ handles[e][k] = {"SpineAdditivePmaMaterial"}
        /\ Unwrap(frame[e])[k].blend_mode = "Normal"
        /\ Unwrap(frame[e])[k].color = "red"
        /\ Unwrap(frame[e])[k].attachment_renderer_object = "tex2"
        /\ materials[e][k]["SpineNormalPmaMaterial"] =
                Some([image |-> "tex2", color |-> "red", dark_color |-> "grey"])

\* The commands spine_render has issued in this step for the mesh child k of e.
IssuedFor(e, k) ==
    {i \in (Len(commands) + 1)..Len(commands') :
        commands'[i].entity = e /\ commands'[i].child = k}

\* C11: when spine_render gets for a controller the renderable list of its
\* previous render, no mesh of the controller changes, and for a slot that
\* holds the handle of its renderable's variant no command is issued and no
\* material is created: the one material held is written with the renderable's
\* color, dark color and texture, and no other material of the slot changes.
C11_RenderIdempotent ==
    [][\A e \in Entities :
        ( /\ "Render" \notin done
          /\ "Render" \in done'
          /\ IsSome(frame'[e])
          /\ frame'[e] = last_frame[e] ) =>
            /\ meshes'[e] = meshes[e]
            /\ \A k \in 1..Len(Unwrap(frame'[e])) :
                LET renderable == Unwrap(frame'[e])[k]
                    v == VariantOf(renderable)
                IN  ( /\ renderable.attachment_renderer_object # None
                      /\ v \in handles[e][k] ) =>
                        /\ IssuedFor(e, k) = {}
                        /\ IsSome(materials[e][k][v])
                        /\ materials'[e][k] =
                            [materials[e][k] EXCEPT ![v] =
                                Some([image |-> renderable.attachment_renderer_object,
                                      color |-> renderable.color,
                                      dark_color |-> renderable.dark_color])]
                        /\ materials'[e][k] = materials[e][k]]_vars

\* A controller has rendered the two textured renderables of its previous
\* frame again: both slots hold their handles and no command is pending.
C11_Witness ==
    \E e \in Entities :
        /\ "Render" \in done
        /\ IsSome(frame[e])
        /\ frame[e] = last_frame[e]
        /\ Len(Unwrap(frame[e])) = 2
        /\ \A k \in 1..2 :
            /\ Unwrap(frame[e])[k].attachment_renderer_object # None
            /\ handles[e][k] = {VariantOf(Unwrap(frame[e])[k])}
        /\ Unwrap(frame[e])[1] # Unwrap(frame[e])[2]
        /\ commands = <<>>

\* C12: an entity whose skeleton data does not parse stays Loading: it is never
\* Failed or Ready, has no controller, no child and no bone proxy, has no spawn
\* or insert command and no ready notification, its asset caches no data, and
\* every spine_load that finds its assets resolved calls read_skeleton_data
\* for it again.
C12_ParseFailureRetries ==
    \A e \in Entities :
        ~parses[handle_of[e]] =>
            /\ loader[e] = "Loading"
            /\ ~IsSome(spine[e])
            /\ children[e] = <<>>
            /\ bones[e] = {}
            /\ meshes[e] = <<>>
            /\ BuildCommands(commands, e) = {}
            /\ e \notin Range(local_ready)
            /\ e \notin Range(ready_events)
            /\ ~IsSome(assets[handle_of[e]].data)
            /\ ("Load" \in done /\ Resolved(e) => e \in tried)
            /\ (e \in tried => Resolved(e) /\ failures[e] >= 1)
            /\ (failures[e] >= 1 => Resolved(e))

\* The parse has failed in two ticks and spine_load has just tried it again.
C12_Witness ==
    \E e \in Entities :
        /\ ~parses[handle_of[e]]
        /\ failures[e] = 2
        /\ e \in tried
        /\ loader[e] = "Loading"

\* C13: while an asset spine_load needs for an entity is unresolved, the entity
\* is Loading with no controller, child, bone proxy, mesh, command or ready
\* notification, its asset holds no loader object and no parsed data, and no
\* parse is tried for it; an entity whose assets are resolved is processed by
\* the same spine_load, and by the first spine_load after they resolve.
C13_UnresolvedWaits ==
    \A e \in Entities :
        /\ ~Resolved(e) =>
            /\ loader[e] = "Loading"
            /\ ~IsSome(spine[e])
            /\ children[e] = <<>>
            /\ bones[e] = {}
            /\ meshes[e] = <<>>
            /\ BuildCommands(commands, e) = {}
            /\ e \notin Range(local_ready)
            /\ e \notin Range(ready_events)
            /\ ~IsSome(assets[handle_of[e]].data)
            /\ ~assets[handle_of[e]].loader
            /\ e \notin tried
            /\ failures[e] = 0
        /\ ("Load" \in done /\ Resolved(e) => loader[e] = "Ready" \/ e \in tried)

\* spine_load has run with one entity's source still unresolved while the
\* other entity made its transition.
C13_Witness ==
    \E e, other \in Entities :
        /\ "Load" \in done
        /\ assets[handle_of[e]].present
        /\ assets[handle_of[e]].atlas
        /\ ~assets[handle_of[e]].source
        /\ loader[e] = "Loading"
        /\ loader[other] = "Ready"
        /\ age[other] = Some(0)

TrueConditions(blend_mode, pma) ==
    {i \in DOMAIN MaterialVariants :
        Condition(MaterialVariants[i],
                  [blend_mode |-> blend_mode, premultiplied_alpha |-> pma])}

\* C15: for each of the four blend modes and each of the two premultiplied-alpha
\* settings exactly one of the eight conditions of spine_render holds, and so
\* for every renderable of every frame.
C15_ExactlyOneCondition ==
    /\ \A blend_mode \in BlendModes : \A pma \in BOOLEAN :
            Cardinality(TrueConditions(blend_mode, pma)) = 1
    /\ \A blend_mode \in BlendModes : \A pma \in BOOLEAN :
            \A other \in BlendModes : \A otherPma \in BOOLEAN :
                TrueConditions(blend_mode, pma) = TrueConditions(other, otherPma)
                    => blend_mode = other /\ pma = otherPma
    /\ \A e \in Entities :
            IsSome(frame[e]) =>
                \A k \in DOMAIN Unwrap(frame[e]) :
                    Cardinality(TrueConditions(
                        Unwrap(frame[e])[k].blend_mode,
                        Unwrap(frame[e])[k].premultiplied_alpha)) = 1

\* spine_render has tested the conditions for two renderables of one frame that
\* differ in blend mode.
C15_Witness ==
    \E e \in Entities :
        /\ "Render" \in done
        /\ IsSome(frame[e])
        /\ Len(Unwrap(frame[e])) = 2
        /\ Unwrap(frame[e])[1].blend_mode = "Normal"
        /\ Unwrap(frame[e])[2].blend_mode = "Additive"
        /\ \A k \in 1..2 : Unwrap(frame[e])[k].attachment_renderer_object # None

\* The event is a Dispose event.
IsDispose(event) == event.type = "Dispose"

\* The entities of the Dispose events of a sequence of events, in order.
DisposeEntities(seq) ==
    [i \in 1..Len(SelectSeq(seq, IsDispose)) |-> SelectSeq(seq, IsDispose)[i].entity]

\* C16, as claimed: a controller emits one Dispose event in its lifetime, so
\* the events of a tick hold at most one Dispose event of an entity.
C16_OneDisposePerController ==
    \A e \in Entities :
        Cardinality({i \in DOMAIN spine_events :
                        IsDispose(spine_events[i]) /\ spine_events[i].entity = e}) <= 1

\* C16, amended: every Dispose callback a controller's animation state raises
\* during the advance is forwarded as one Dispose event: the Dispose events
\* pushed in a tick are in number, order and entity the Dispose callbacks of
\* the tick, they are all sent when spine_update has returned, and a Dispose
\* event holds the entity and no animation name.  A controller sends as many
\* as its animation state raises.
C16_DisposeForwarded ==
    /\ DisposeEntities(enqueued) = dispose_calls
    /\ DisposeEntities(spine_events) =
            SubSeq(dispose_calls, 1, Len(DisposeEntities(spine_events)))
    /\ ("Update" \in done => DisposeEntities(spine_events) = dispose_calls)
    /\ \A i \in DOMAIN enqueued :
            IsDispose(enqueued[i]) => DOMAIN enqueued[i] = {"type", "entity"}
    /\ \A i \in DOMAIN spine_events :
            IsDispose(spine_events[i]) => DOMAIN spine_events[i] = {"type", "entity"}

\* One controller's animation state has disposed two track entries in one
\* advance, and both Dispose events are out.
C16_Witness ==
    /\ "Update" \in done
    /\ Len(spine_events) = 2
    /\ IsDispose(spine_events[1])
    /\ IsDispose(spine_events[2])
    /\ spine_events[1].entity = spine_events[2].entity
    /\ dispose_calls = <<spine_events[1].entity, spine_events[1].entity>>

ParsedFor(a) == {e \in tried : handle_of[e] = a}

\* C18: the cache slot of an asset is written at most once: a slot that holds
\* parsed data is neither overwritten nor parsed for again by any later
\* spine_load, one run of spine_load parses a parsable asset for one entity
\* at most, and every controller built from the asset holds the slot's data.
C18_ParsedOnce ==
    [][\A a \in Assets :
          /\ parsed'[a] <= 1
          /\ IsSome(assets'[a].data) => Cardinality(ParsedFor(a)') <= 1
          /\ IsSome(assets[a].data) =>
                /\ assets'[a].data = assets[a].data
                /\ ParsedFor(a)' \subseteq ParsedFor(a)
          /\ \A e \in Entities :
                (IsSome(spine'[e]) /\ handle_of[e] = a) =>
                    Unwrap(spine'[e]).skeleton_data = assets'[a].data]_vars

\* Both entities share an asset parsed once; the second one was built in a
\* later tick than the first, from the cache.
C18_Witness ==
    /\ handle_of["e1"] = handle_of["e2"]
    /\ parsed[handle_of["e1"]] = 1
    /\ IsSome(spine["e1"]) /\ IsSome(spine["e2"])
    /\ Unwrap(spine["e1"]).skeleton_data = Unwrap(spine["e2"]).skeleton_data
    /\ age["e1"] = Some(AgeCap) /\ age["e2"] = Some(1)

\* The run of spine_update of the tick after the transition of e has started,
\* or a later tick has begun.
InstallDue(e) ==
    /\ IsSome(age[e])
    /\ \/ Unwrap(age[e]) > 1
       \/ Unwrap(age[e]) = 1 /\ "Update" \in Range(started)

\* C19: set_listener is called on a controller exactly once, by the run of
\* spine_update of the tick after the entity became Ready (the tick of its
\* SpineReadyEvent): never before that run, and never again after it.
C19_ListenerInstalledOnce ==
    \A e \in Entities :
        /\ installs[e] <= 1
        /\ installs[e] = 1 <=> InstallDue(e)
        /\ installs[e] = 1 => IsSome(spine[e]) /\ Unwrap(spine[e]).listener

\* Two ticks after its transition, after that tick's spine_update, the
\* controller still has had one set_listener call.
C19_Witness ==
    \E e \in Entities :
        /\ age[e] = Some(2)
        /\ "Update" \in done
        /\ installs[e] = 1
        /\ sent[e] = 1

\* C20: with several controllers pushing to the one queue, every event pushed
\* and every SpineEvent sent carries the entity of the controller whose
\* animation state raised its callback.
C20_EventCarriesRaiser ==
    /\ Len(raisers) = Len(enqueued)
    /\ \A i \in DOMAIN enqueued : enqueued[i].entity = raisers[i]
    /\ Len(spine_events) <= Len(raisers)
    /\ \A i \in DOMAIN spine_events : spine_events[i].entity = raisers[i]

\* Two controllers raised one callback each in the same tick, and both events
\* were sent.
C20_Witness ==
    /\ Len(spine_events) = 2
    /\ spine_events[1].entity # spine_events[2].entity
    /\ raisers = <<spine_events[1].entity, spine_events[2].entity>>

\* The mesh children of e whose index has no renderable in the list.
Unrendered(e, list) ==
    {k \in DOMAIN children[e] : IsMeshChild(e, k) /\ ~HasRenderable(list, k)}

\* C21: for a mesh child whose index has no renderable in the frame,
\* spine_render blanks the mesh, issues no command for the child and changes
\* none of its materials, and the commands applied at the end of that tick
\* leave the handles of the child as they were.
C21_UnrenderedSlotOnlyBlanked ==
    [][\A e \in Entities :
        /\ ("Render" \notin done /\ "Render" \in done' /\ IsSome(frame'[e])) =>
              \A k \in Unrendered(e, Unwrap(frame'[e])) :
                /\ meshes'[e][k] = empty_mesh(meshes[e][k])
                /\ IssuedFor(e, k) = {}
                /\ materials'[e][k] = materials[e][k]
        /\ ("Render" \in done /\ started' = <<>> /\ IsSome(frame[e])) =>
              \A k \in Unrendered(e, Unwrap(frame[e])) :
                handles'[e][k] = handles[e][k]]_vars

\* A slot that held a renderable in the previous frame has none in this one:
\* its mesh is blank, and the handle and material of the previous frame are
\* still attached.
C21_Witness ==
    \E e \in Entities :
        /\ "Render" \in done
        /\ IsSome(frame[e]) /\ IsSome(last_frame[e])
        /\ Len(Unwrap(frame[e])) = 1
        /\ Len(Unwrap(last_frame[e])) = 2
        /\ meshes[e][2] = empty_mesh(meshes[e][2])
        /\ handles[e][2] # {}
        /\ \E m \in handles[e][2] : IsSome(materials[e][2][m])
        /\ \A i \in DOMAIN commands :
              commands[i].op \in {"insert_handle", "remove_handle"} =>
                  commands[i].child # 2

\* A step of spine_update after its first loop.
UpdateStep ==
    \/ \E e \in Entities :
            UpdateAdvance(e, CallbackSeqs(MaxCallbacks - raised), {"setup"})
    \/ UpdateLock
    \/ UpdatePop
    \/ UpdateUnlock

\* C22: spine_update holds the queue lock only for the drain that follows its
\* advance loop; while a controller is still to be advanced the lock is free,
\* so the listener, which locks for each single push inside the advance, can
\* take it; nothing is taken from the queue before the loop is over; and a
\* running spine_update always has a step it can take.
C22_LockOnlyForDrain ==
    /\ lock \in {None, "spine_update"}
    /\ lock = "spine_update" => Running("Update") /\ advanced = Controllers
    /\ (Running("Update") /\ advanced # Controllers) =>
            /\ lock = None
            /\ spine_events = <<>>
            /\ events = enqueued
    /\ Running("Update") => ENABLED UpdateStep

\* The second of two controllers is still to be advanced while the queue
\* already holds an event pushed by the listener of the first.
C22_Witness ==
    /\ Running("Update")
    /\ Cardinality(Controllers) = 2
    /\ Cardinality(advanced) = 1
    /\ events # <<>>
    /\ lock = None
    /\ \A e \in Controllers : Unwrap(spine[e]).listener

\* C23: a controller advanced by spine_update has its listener installed: in
\* the tick of the transition the entity has no controller that spine_update
\* could advance, and in the next tick the listener is set before the advance
\* loop, so every advance runs with the listener of its own entity in place.
C23_ListenerBeforeAdvance ==
    \A e \in Entities :
        /\ age[e] = Some(0) => IsSome(spine[e]) = FALSE /\ e \notin advanced
        /\ e \in advanced =>
              /\ IsSome(spine[e])
              /\ Unwrap(spine[e]).listener
              /\ Unwrap(spine[e]).captured = e
              /\ installs[e] = 1
        /\ steps[e] # <<>> => e \in advanced

\* The first advance of a controller, in the tick after its transition, raised
\* a callback and the listener installed just before pushed its event.
C23_Witness ==
    \E e \in Entities :
        /\ age[e] = Some(1)
        /\ advanced = {e}
        /\ steps[e] # <<>>
        /\ raisers = <<e>>
        /\ enqueued # <<>>
        /\ enqueued[1].entity = e

====
